---- MODULE Spec2Model ----
(***************************************************************************)
(* Voxel Monkey: the voxel edit engine of src/components/VoxelModel.tsx.   *)
(*                                                                         *)
(* The App component keeps the session in React state.  Voxel objects are  *)
(* JavaScript objects, so a voxel is modelled as a heap cell and every     *)
(* array (the store, a history snapshot, the staged preview, a project's   *)
(* voxel list) as a sequence of heap references: a shallow copy            *)
(* ([...voxels]) copies the references, not the objects.  Arrays are never *)
(* mutated in place once they are stored, voxel objects are (line 530).    *)
(*                                                                         *)
(* A handler is a function of the session state: it yields the state its   *)
(* setters leave.  An action is the render that follows one handler call.  *)
(***************************************************************************)
EXTENDS Integers, Sequences, FiniteSets, TLC

(***************************************************************************)
(* Bounds of the model.                                                    *)
(***************************************************************************)
\* lattice cells are the points of the positive octant within this
\* Manhattan distance of the origin
GridMax == 1
\* a step is followed while it leaves at most this many voxels in the store,
MaxVoxels == 2
\* at most this many snapshots in the history
MaxHist == 2
\* and at most this many records in the project list
MaxProjects == 1

(***************************************************************************)
(* Program constants.                                                      *)
(***************************************************************************)
HistoryCap == 20
CLICK_THRESHOLD == 5

\* colors are the three channels of the hex string
Red == <<255, 0, 0>>
Green == <<0, 255, 0>>
Moss == <<102, 153, 102>>
Colors == {Red, Green}
Tools == {"PENCIL", "ERASER", "PAINT", "PICKER", "DUPLICATE"}

Cells ==
  {p \in (0..GridMax) \X (0..GridMax) \X (0..GridMax) : p[1] + p[2] + p[3] <= GridMax}

\* face normals of an axis-aligned unit cube; NoNormal is e.face being absent
Normals == {<<1,0,0>>, <<-1,0,0>>, <<0,1,0>>, <<0,-1,0>>, <<0,0,1>>, <<0,0,-1>>}
NoNormal == <<>>

\* screen distances between pointer-down and click, in pixels
ClickDists == {4, 5}

\* raycast hit coordinates on the ground plane, in half units
HalfCoords == (-1)..(2 * GridMax)

\* an absent optional argument, and the null of a nullable state
Undefined == <<>>
None == <<>>
Some(x) == <<x>>

\* a point of the generator's answer
Point(x, y, z, c) == [position |-> <<x, y, z>>, color |-> c]
AiPrompts == {"", "a tree"}

VARIABLES
  heap,               \* voxel objects: id -> [position, color]
  voxels,             \* the Voxel Store: sequence of ids
  history,            \* sequence of snapshots, each a sequence of ids
  historyStep,        \* the cursor
  currentTool,
  currentColor,
  previewVoxels,      \* None or Some(sequence of ids)
  originalPreviewRef, \* None or Some(sequence of ids)
  isGenerating,
  pending,            \* the promise of generateVoxelPrompt is not settled yet
  projects,           \* sequence of [id, voxels, currentColor]
  currentProjectId,   \* None or Some(id)
  hoveredCoord,       \* None or Some(position)
  placementPos,       \* None or Some(position)
  lastOp,             \* observer: the handler that ran last and the branch it took
  prior               \* observer: store content before the last recording handler

vars ==
  <<heap, voxels, history, historyStep, currentTool, currentColor, previewVoxels,
    originalPreviewRef, isGenerating, pending, projects, currentProjectId,
    hoveredCoord, placementPos, lastOp, prior>>

(***************************************************************************)
(* Helpers.                                                                *)
(***************************************************************************)
Range(s) == {s[i] : i \in 1..Len(s)}

\* the positions and colors a sequence of references denotes in heap h
ContentIn(h, vs) == [i \in 1..Len(vs) |-> h[vs[i]]]
Content(vs) == ContentIn(heap, vs)

SamePos(p, q) == p[1] = q[1] /\ p[2] = q[2] /\ p[3] = q[3]

\* the arrays of a sequence of arrays, one after the other
RECURSIVE Flat(_)
Flat(ss) == IF ss = <<>> THEN <<>> ELSE Head(ss) \o Flat(Tail(ss))

OptSeq(opt) == IF opt = None THEN <<>> ELSE opt[1]

\* the state a handler starts from, as one record; the observer's note of
\* the content before a recording is reset unless the handler records
Cur ==
  [heap |-> heap, voxels |-> voxels, history |-> history, historyStep |-> historyStep,
   currentTool |-> currentTool, currentColor |-> currentColor,
   previewVoxels |-> previewVoxels, originalPreviewRef |-> originalPreviewRef,
   isGenerating |-> isGenerating, pending |-> pending, projects |-> projects,
   currentProjectId |-> currentProjectId, hoveredCoord |-> hoveredCoord,
   placementPos |-> placementPos, lastOp |-> lastOp, prior |-> <<>>]

\* every reference the arrays of state s hold: the snapshots from the oldest
\* on, then the store, the staged preview, its original and the projects
RefsOf(s) ==
  Flat(s.history) \o s.voxels \o OptSeq(s.previewVoxels) \o OptSeq(s.originalPreviewRef)
    \o Flat([i \in 1..Len(s.projects) |-> s.projects[i].voxels])

\* the number each referenced object gets: its rank in the order in which
\* the sequence all meets the objects first
Renumbering(all) ==
  LET live     == Range(all)
      first(o) == CHOOSE i \in 1..Len(all) : all[i] = o /\ \A j \in 1..(i - 1) : all[j] # o
  IN  [o \in live |-> Cardinality({q \in live : first(q) <= first(o)})]

\* state s with its objects renumbered by ren and the others dropped
Renumbered(s, ren) ==
  LET n           == Cardinality(DOMAIN ren)
      Ren(vs)     == [i \in 1..Len(vs) |-> ren[vs[i]]]
      RenOpt(opt) == IF opt = None THEN None ELSE Some(Ren(opt[1]))
  IN  [s EXCEPT !.heap = [k \in 1..n |-> s.heap[CHOOSE o \in DOMAIN ren : ren[o] = k]],
                !.voxels = Ren(s.voxels),
                !.history = [i \in 1..Len(s.history) |-> Ren(s.history[i])],
                !.previewVoxels = RenOpt(s.previewVoxels),
                !.originalPreviewRef = RenOpt(s.originalPreviewRef),
                !.projects = [i \in 1..Len(s.projects) |->
                                [s.projects[i] EXCEPT !.voxels = Ren(s.projects[i].voxels)]]]

\* state s with the unreferenced objects collected and the others numbered
\* in the order RefsOf meets them: object identity is all an id stands for
Collect(s) == CHOOSE t \in {Renumbered(s, ren) : ren \in {Renumbering(RefsOf(s))}} : TRUE

\* the render that follows a handler: the state becomes what the handler set
Becomes(s) ==
  \E t \in {Collect(u) : u \in {s}} :
    /\ heap' = t.heap
    /\ voxels' = t.voxels
    /\ history' = t.history
    /\ historyStep' = t.historyStep
    /\ currentTool' = t.currentTool
    /\ currentColor' = t.currentColor
    /\ previewVoxels' = t.previewVoxels
    /\ originalPreviewRef' = t.originalPreviewRef
    /\ isGenerating' = t.isGenerating
    /\ pending' = t.pending
    /\ projects' = t.projects
    /\ currentProjectId' = t.currentProjectId
    /\ hoveredCoord' = t.hoveredCoord
    /\ placementPos' = t.placementPos
    /\ lastOp' = t.lastOp
    /\ prior' = t.prior

\* the k-th object a handler creates
FreshId(k) == Cardinality(DOMAIN heap) + k

\* heap h with object o set to v
Put(h, o, v) == [q \in DOMAIN h \cup {o} |-> IF q = o THEN v ELSE h[q]]

\* Math.floor(x + 0.5) for x given in half units
RoundHalf(x2) == (x2 + 1) \div 2

\* what the observer notes of a handler: its name, the branch it took, the
\* cell it was asked to fill (<<>> if none), the index (from 1), the face
\* normal and the color argument it was given (0, <<>> and <<>> if none),
\* and how many snapshots the history held and how many of them were
\* redoable when it started, and whether a handler has changed the store or
\* moved the cursor since the request now pending was sent
EditedWhilePending ==
  /\ pending
  /\ lastOp.op # "handleAiRequest"
  /\ \/ lastOp.edited
     \/ lastOp.branch \in {"added", "removed", "painted", "cleared", "moved"}
Op(name, branch, pos) ==
  [op |-> name, branch |-> branch, pos |-> pos,
   index |-> 0, normal |-> <<>>, color |-> <<>>, mode |-> "", shown |-> <<>>,
   held |-> Len(history), redoable |-> Len(history) - 1 - historyStep,
   edited |-> EditedWhilePending]
NoPos == <<>>
OpAt(name, branch, index) == [Op(name, branch, NoPos) EXCEPT !.index = index]
OpAdd(name, branch, pos, overrideColor) ==
  [Op(name, branch, pos) EXCEPT !.color = overrideColor]

(***************************************************************************)
(* History Manager.                                                        *)
(***************************************************************************)
\* a recordHistory that never evicts
recordHistoryNoEviction(newVoxels) ==
  LET sliced == SubSeq(history, 1, historyStep + 1)
      pushed == Append(sliced, newVoxels)
  IN  [history |-> pushed, historyStep |-> Len(pushed) - 1]

\* a recordHistory that slices one snapshot short: slice(0, historyStep)
recordHistorySliceShort(newVoxels) ==
  LET sliced  == SubSeq(history, 1, historyStep)
      pushed  == Append(sliced, newVoxels)
      shifted == IF Len(pushed) > HistoryCap THEN Tail(pushed) ELSE pushed
  IN  [history |-> shifted, historyStep |-> Len(shifted) - 1]

\* a recordHistory that starts an empty history with the store as it is
recordHistorySeedsStore(newVoxels) ==
  LET sliced  == IF history = <<>> THEN <<voxels>> ELSE SubSeq(history, 1, historyStep + 1)
      pushed  == Append(sliced, newVoxels)
      shifted == IF Len(pushed) > HistoryCap THEN Tail(pushed) ELSE pushed
  IN  [history |-> shifted, historyStep |-> Len(shifted) - 1]

recordHistory(newVoxels) ==
  LET sliced  == SubSeq(history, 1, historyStep + 1)
      pushed  == Append(sliced, newVoxels)
      shifted == IF Len(pushed) > HistoryCap THEN Tail(pushed) ELSE pushed
  IN  [history |-> shifted, historyStep |-> Len(shifted) - 1]

CanUndo == historyStep > 0
CanRedo == historyStep < Len(history) - 1

\* setVoxels(newVoxels); recordHistory(newVoxels), with the objects in h
StoreAndRecord(h, newVoxels) ==
  LET r == recordHistory(newVoxels)
  IN  [Cur EXCEPT !.heap = h,
                  !.voxels = newVoxels,
                  !.history = r.history,
                  !.historyStep = r.historyStep,
                  !.prior = Content(voxels)]

\* an undo that moves the cursor outside its guard
undoUnguardedStep ==
  IF CanUndo
    THEN [Cur EXCEPT !.voxels = history[historyStep],
                     !.historyStep = historyStep - 1,
                     !.lastOp = Op("undo", "moved", NoPos)]
    ELSE [Cur EXCEPT !.historyStep = historyStep - 1,
                     !.lastOp = Op("undo", "skipped", NoPos)]

\* an undo that moves the cursor and leaves the store as it is
undoKeepsStore ==
  IF CanUndo
    THEN [Cur EXCEPT !.historyStep = historyStep - 1,
                     !.lastOp = Op("undo", "moved", NoPos)]
    ELSE [Cur EXCEPT !.lastOp = Op("undo", "skipped", NoPos)]

undo ==
  IF CanUndo
    THEN [Cur EXCEPT !.voxels = history[historyStep],
                     !.historyStep = historyStep - 1,
                     !.lastOp = Op("undo", "moved", NoPos)]
    ELSE [Cur EXCEPT !.lastOp = Op("undo", "skipped", NoPos)]

redo ==
  IF CanRedo
    THEN [Cur EXCEPT !.voxels = history[historyStep + 2],
                     !.historyStep = historyStep + 1,
                     !.lastOp = Op("redo", "moved", NoPos)]
    ELSE [Cur EXCEPT !.lastOp = Op("redo", "skipped", NoPos)]

(***************************************************************************)
(* Voxel Store operations.                                                 *)
(***************************************************************************)
\* an occupancy test that compares the position arrays by reference
existsByReference(pos) == \E i \in 1..Len(voxels) : FALSE

\* voxels.some(v => v.position[0] === pos[0] && ...)
exists(pos) == \E i \in 1..Len(voxels) : SamePos(heap[voxels[i]].position, pos)

\* overrideColor || currentColor: undefined (and the empty string) is falsy
colorOr(overrideColor) ==
  IF overrideColor = Undefined THEN currentColor ELSE overrideColor

\* an addVoxel that overwrites the color of the voxel it finds
addVoxelRecolorsOccupied(pos, overrideColor, name) ==
  IF ~exists(pos)
    THEN LET o == FreshId(1)
             v == [position |-> pos, color |-> colorOr(overrideColor)]
         IN  [StoreAndRecord(Put(heap, o, v), Append(voxels, o))
                EXCEPT !.lastOp = OpAdd(name, "added", pos, overrideColor)]
    ELSE LET i == CHOOSE k \in 1..Len(voxels) : SamePos(heap[voxels[k]].position, pos)
         IN  [Cur EXCEPT !.heap = [heap EXCEPT ![voxels[i]].color = colorOr(overrideColor)],
                         !.lastOp = OpAdd(name, "occupied", pos, overrideColor)]

\* an addVoxel that puts the new voxel first
addVoxelPrepends(pos, overrideColor, name) ==
  IF ~exists(pos)
    THEN LET o == FreshId(1)
             v == [position |-> pos, color |-> colorOr(overrideColor)]
         IN  [StoreAndRecord(Put(heap, o, v), <<o>> \o voxels)
                EXCEPT !.lastOp = OpAdd(name, "added", pos, overrideColor)]
    ELSE [Cur EXCEPT !.lastOp = OpAdd(name, "occupied", pos, overrideColor)]

addVoxel(pos, overrideColor, name) ==
  IF ~exists(pos)
    THEN LET o == FreshId(1)
             v == [position |-> pos, color |-> colorOr(overrideColor)]
         IN  [StoreAndRecord(Put(heap, o, v), Append(voxels, o))
                EXCEPT !.lastOp = OpAdd(name, "added", pos, overrideColor)]
    ELSE [Cur EXCEPT !.lastOp = OpAdd(name, "occupied", pos, overrideColor)]

\* a removeVoxel that leaves the history alone
removeVoxelUnrecorded(index, name) ==
  LET newVoxels == SubSeq(voxels, 1, index - 1) \o SubSeq(voxels, index + 1, Len(voxels))
  IN  [Cur EXCEPT !.voxels = newVoxels, !.lastOp = OpAt(name, "removed", index)]

\* voxels.filter((_, i) => i !== index), index given from 1
removeVoxel(index, name) ==
  LET newVoxels == SubSeq(voxels, 1, index - 1) \o SubSeq(voxels, index + 1, Len(voxels))
  IN  [StoreAndRecord(heap, newVoxels) EXCEPT !.lastOp = OpAt(name, "removed", index)]

\* newVoxels = [...voxels]; newVoxels[index].color = currentColor: outside
\* the array newVoxels[index] is undefined and the assignment throws a
\* TypeError before any setter runs
updateVoxelColor(index, name) ==
  IF index \notin 1..Len(voxels)
  THEN [Cur EXCEPT !.lastOp = OpAt(name, "threw", index)]
  ELSE LET h2 == [heap EXCEPT ![voxels[index]].color = currentColor]
       IN  [StoreAndRecord(h2, voxels) EXCEPT !.lastOp = OpAt(name, "painted", index)]

\* a handlePickColor that leaves the active tool alone
handlePickColorKeepsTool(index, name) ==
  [Cur EXCEPT !.currentColor = heap[voxels[index]].color,
              !.lastOp = OpAt(name, "picked", index)]

handlePickColor(index, name) ==
  [Cur EXCEPT !.currentColor = heap[voxels[index]].color,
              !.currentTool = "PENCIL",
              !.lastOp = OpAt(name, "picked", index)]

\* a handler that returns without a state update
Skip(name, branch) == [Cur EXCEPT !.lastOp = Op(name, branch, NoPos)]

handleClear(confirmed) ==
  IF confirmed
    THEN [StoreAndRecord(heap, <<>>) EXCEPT !.lastOp = Op("handleClear", "cleared", NoPos)]
    ELSE Skip("handleClear", "cancelled")

(***************************************************************************)
(* Interaction layer and tool dispatch.                                    *)
(***************************************************************************)
Plus(p, n) == <<p[1] + n[1], p[2] + n[2], p[3] + n[3]>>

\* a handleVoxelClick that passes no color on
handleVoxelClickNoColor(index, normal, dist) ==
  IF ~(dist < CLICK_THRESHOLD)
    THEN Skip("voxelClick", "drag")
    ELSE CASE currentTool = "ERASER" -> removeVoxel(index, "voxelClick")
           [] currentTool = "PAINT"  -> updateVoxelColor(index, "voxelClick")
           [] currentTool = "PICKER" -> handlePickColor(index, "voxelClick")
           [] OTHER ->
                IF normal # NoNormal
                  THEN LET sourceVoxel == heap[voxels[index]]
                           newPos      == Plus(sourceVoxel.position, normal)
                           colorToUse  == Undefined
                           added       == addVoxel(newPos, colorToUse, "voxelClick")
                       IN  [added EXCEPT !.lastOp.index = index,
                                         !.lastOp.normal = normal]
                  ELSE Skip("voxelClick", "noNormal")

\* a handleVoxelClick that takes the upward face when the event has no face
handleVoxelClickDefaultsUp(index, normal, dist) ==
  IF ~(dist < CLICK_THRESHOLD)
    THEN Skip("voxelClick", "drag")
    ELSE CASE currentTool = "ERASER" -> removeVoxel(index, "voxelClick")
           [] currentTool = "PAINT"  -> updateVoxelColor(index, "voxelClick")
           [] currentTool = "PICKER" -> handlePickColor(index, "voxelClick")
           [] OTHER ->
                LET sourceVoxel == heap[voxels[index]]
                    used        == IF normal # NoNormal THEN normal ELSE <<0, 1, 0>>
                    newPos      == Plus(sourceVoxel.position, used)
                    colorToUse  == IF currentTool = "DUPLICATE"
                                     THEN sourceVoxel.color ELSE Undefined
                    added       == addVoxel(newPos, colorToUse, "voxelClick")
                IN  [added EXCEPT !.lastOp.index = index,
                                  !.lastOp.normal = normal]

\* VoxelBox.onClick followed by VoxelModel.handleVoxelClick
handleVoxelClick(index, normal, dist) ==
  IF ~(dist < CLICK_THRESHOLD)
    THEN Skip("voxelClick", "drag")
    ELSE CASE currentTool = "ERASER" -> removeVoxel(index, "voxelClick")
           [] currentTool = "PAINT"  -> updateVoxelColor(index, "voxelClick")
           [] currentTool = "PICKER" -> handlePickColor(index, "voxelClick")
           [] OTHER ->
                IF normal # NoNormal
                  THEN LET sourceVoxel == heap[voxels[index]]
                           newPos      == Plus(sourceVoxel.position, normal)
                           colorToUse  == IF currentTool = "DUPLICATE"
                                            THEN sourceVoxel.color ELSE Undefined
                           added       == addVoxel(newPos, colorToUse, "voxelClick")
                       IN  [added EXCEPT !.lastOp.index = index,
                                         !.lastOp.normal = normal]
                  ELSE Skip("voxelClick", "noNormal")

\* InteractiveGrid.handleGridClick, then onAdd = (pos) => onAddVoxel(pos)
handleGridClick(x2, y2, z2, dist) ==
  IF dist >= CLICK_THRESHOLD
    THEN Skip("gridClick", "drag")
    ELSE addVoxel(<<RoundHalf(x2), RoundHalf(y2), RoundHalf(z2)>>, Undefined, "gridClick")

setCurrentTool(t) ==
  [Cur EXCEPT !.currentTool = t, !.lastOp = Op("setCurrentTool", "set", NoPos)]

setCurrentColor(c) ==
  [Cur EXCEPT !.currentColor = c, !.lastOp = Op("setCurrentColor", "set", NoPos)]

\* VoxelModel.handleHoverUpdate: onHoverCoord(pos); setPlacementPos(placement)
handleHoverUpdate(pos, placement) ==
  [Cur EXCEPT !.hoveredCoord = pos,
              !.placementPos = placement,
              !.lastOp = Op("hover", "set", NoPos)]

\* VoxelBox.onPointerOver
voxelPointerOver(index, normal) ==
  LET voxel == heap[voxels[index]]
  IN  IF normal # NoNormal
        THEN handleHoverUpdate(Some(voxel.position), Some(Plus(voxel.position, normal)))
        ELSE handleHoverUpdate(Some(voxel.position), None)

\* InteractiveGrid.handlePointerMove
gridPointerMove(x2, y2, z2) ==
  LET pos == <<RoundHalf(x2), RoundHalf(y2), RoundHalf(z2)>>
  IN  handleHoverUpdate(Some(pos), Some(pos))

\* onPointerOut of a voxel or of the ground plane
pointerOut == handleHoverUpdate(None, None)

\* the color of the placement ghost
ghostColor ==
  IF currentTool = "DUPLICATE" /\ placementPos # None
    THEN LET p == placementPos[1]
             Dist(i) == LET q == heap[voxels[i]].position
                            Abs(x) == IF x < 0 THEN -x ELSE x
                        IN  Abs(q[1] - p[1]) + Abs(q[2] - p[2]) + Abs(q[3] - p[3])
             found == {i \in 1..Len(voxels) : Dist(i) = 1}
         IN  IF found # {}
               THEN heap[voxels[CHOOSE i \in found : \A j \in found : i <= j]].color
               ELSE currentColor
    ELSE currentColor

(***************************************************************************)
(* AI Preview Reconciler.                                                  *)
(***************************************************************************)
\* the hue/saturation/lightness view of a color, in exact fractions:
\* l = lsum / 510, s = sn / sd, h = hn / hd
Max3(c) == CHOOSE m \in Range(c) : \A x \in Range(c) : x <= m
Min3(c) == CHOOSE m \in Range(c) : \A x \in Range(c) : m <= x

getHSL(c) ==
  LET mx == Max3(c)
      mn == Min3(c)
      d  == mx - mn
      sm == mx + mn
  IN  IF d = 0
        THEN [hn |-> 0, hd |-> 1, sn |-> 0, sd |-> 1, lsum |-> sm]
        ELSE [hn |-> CASE mx = c[1] -> (c[2] - c[3]) + (IF c[2] < c[3] THEN 6 * d ELSE 0)
                       [] mx = c[2] -> (c[3] - c[1]) + 2 * d
                       [] OTHER     -> (c[1] - c[2]) + 4 * d,
              hd |-> 6 * d,
              sn |-> d,
              sd |-> IF sm <= 255 THEN sm ELSE 510 - sm,
              lsum |-> sm]

RECURSIVE Gcd(_, _)
Gcd(a, b) == IF b = 0 THEN (IF a < 0 THEN -a ELSE a) ELSE Gcd(b, a % b)

\* Math.round(255 * n / d), the fraction reduced first
Round255(n, d) ==
  LET g == Gcd(n, d)
  IN  (510 * (n \div g) + (d \div g)) \div (2 * (d \div g))

\* hue2rgb(p, q, t) of Color.setHSL, for t = tn / td; p and q over the
\* common denominator pd
hue2rgb(p, q, pd, tn0, td0) ==
  LET g  == Gcd(tn0, td0)
      td == td0 \div g
      t1 == tn0 \div g
      tn == IF t1 < 0 THEN t1 + td ELSE IF t1 > td THEN t1 - td ELSE t1
  IN  IF 6 * tn < td THEN Round255(p * td + (q - p) * 6 * tn, pd * td)
      ELSE IF 2 * tn < td THEN Round255(q, pd)
      ELSE IF 3 * tn < 2 * td
             THEN Round255(p * td + (q - p) * (4 * td - 6 * tn), pd * td)
      ELSE Round255(p, pd)

\* new THREE.Color().setHSL(h, s, l).getHexString()
setHSL(hn, hd, sn0, sd0, lsum) ==
  IF sn0 = 0
    THEN LET v == Round255(lsum, 510) IN <<v, v, v>>
    ELSE LET gs == Gcd(sn0, sd0)
             sn == sn0 \div gs
             sd == sd0 \div gs
             \* p = l <= 0.5 ? l * (1 + s) : l + s - l * s, over 510 * sd
             p0 == IF lsum <= 255 THEN lsum * (sd + sn)
                   ELSE lsum * sd + 510 * sn - lsum * sn
             q0 == 2 * lsum * sd - p0
             g  == Gcd(Gcd(p0, q0), 510 * sd)
             p  == p0 \div g
             q  == q0 \div g
             pd == (510 * sd) \div g
         IN  <<hue2rgb(q, p, pd, 3 * hn + hd, 3 * hd),
               hue2rgb(q, p, pd, 3 * hn, 3 * hd),
               hue2rgb(q, p, pd, 3 * hn - hd, 3 * hd)>>

\* the color of a staged voxel under an override color
recolor(target, own) ==
  LET t == getHSL(target)
      v == getHSL(own)
      \* Math.min(targetHsl.s, voxelHsl.s * 1.2)
      boosted == t.sn * 5 * v.sd > 6 * v.sn * t.sd
  IN  IF boosted THEN setHSL(t.hn, t.hd, 6 * v.sn, 5 * v.sd, v.lsum)
      ELSE setHSL(t.hn, t.hd, t.sn, t.sd, v.lsum)

\* the first half of handleAiRequest, up to the await
handleAiRequest(prompt) ==
  IF prompt = ""
    THEN Skip("handleAiRequest", "noPrompt")
    ELSE [Cur EXCEPT !.isGenerating = TRUE,
                     !.pending = TRUE,
                     !.previewVoxels = None,
                     !.originalPreviewRef = None,
                     !.lastOp = Op("handleAiRequest", "started", NoPos)]

\* an aiResolved that puts the voxels into the store as well
aiResolvedIntoStore(result) ==
  IF result # None
    THEN LET points == result[1]
             mapped == [i \in 1..Len(points) |-> FreshId(i)]
             h2     == [q \in DOMAIN heap \cup Range(mapped) |->
                          IF q \in DOMAIN heap THEN heap[q]
                          ELSE points[q - Cardinality(DOMAIN heap)]]
         IN  [Cur EXCEPT !.heap = h2,
                         !.voxels = voxels \o mapped,
                         !.originalPreviewRef = Some(mapped),
                         !.previewVoxels = Some(mapped),
                         !.isGenerating = FALSE,
                         !.pending = FALSE,
                         !.lastOp = [Op("aiResolved", "staged", NoPos) EXCEPT !.shown = points]]
    ELSE [Cur EXCEPT !.isGenerating = FALSE,
                     !.pending = FALSE,
                     !.lastOp = Op("aiResolved", "nothing", NoPos)]

\* the second half of handleAiRequest: the generator has answered
aiResolved(result) ==
  IF result # None
    THEN LET points == result[1]
             mapped == [i \in 1..Len(points) |-> FreshId(i)]
             h2     == [q \in DOMAIN heap \cup Range(mapped) |->
                          IF q \in DOMAIN heap THEN heap[q]
                          ELSE points[q - Cardinality(DOMAIN heap)]]
         IN  [Cur EXCEPT !.heap = h2,
                         !.originalPreviewRef = Some(mapped),
                         !.previewVoxels = Some(mapped),
                         !.isGenerating = FALSE,
                         !.pending = FALSE,
                         !.lastOp = [Op("aiResolved", "staged", NoPos) EXCEPT !.shown = points]]
    ELSE [Cur EXCEPT !.isGenerating = FALSE,
                     !.pending = FALSE,
                     !.lastOp = Op("aiResolved", "nothing", NoPos)]

\* the second half of handleAiRequest when the generator fails: the await
\* throws, nothing catches it and the rest of the handler does not run
aiRejected ==
  [Cur EXCEPT !.pending = FALSE,
              !.lastOp = Op("aiRejected", "threw", NoPos)]

\* the target colour and the preview shown when updatePreviewColor is called
OpShown(branch, hex) ==
  [Op("updatePreviewColor", branch, NoPos)
     EXCEPT !.color = hex,
            !.shown = IF previewVoxels = None THEN <<>> ELSE Content(previewVoxels[1])]

\* an updatePreviewColor that works on the preview shown, not on the original
updatePreviewColorFromShown(hex) ==
  IF originalPreviewRef = None \/ previewVoxels = None
    THEN [Cur EXCEPT !.lastOp = OpShown("noOriginal", hex)]
    ELSE IF hex = None
      THEN [Cur EXCEPT !.lastOp = OpShown("reset", hex)]
      ELSE LET orig    == previewVoxels[1]
               updated == [i \in 1..Len(orig) |-> FreshId(i)]
               h2      == [q \in DOMAIN heap \cup Range(updated) |->
                             IF q \in DOMAIN heap THEN heap[q]
                             ELSE LET v == heap[orig[q - Cardinality(DOMAIN heap)]]
                                  IN  [position |-> v.position,
                                       color |-> recolor(hex[1], v.color)]]
           IN  [Cur EXCEPT !.heap = h2,
                           !.previewVoxels = Some(updated),
                           !.lastOp = OpShown("recolored", hex)]

\* hex = None is updatePreviewColor(null)
updatePreviewColor(hex) ==
  IF originalPreviewRef = None
    THEN [Cur EXCEPT !.lastOp = OpShown("noOriginal", hex)]
    ELSE IF hex = None
      THEN [Cur EXCEPT !.previewVoxels = Some(originalPreviewRef[1]),
                       !.lastOp = OpShown("reset", hex)]
      ELSE LET orig    == originalPreviewRef[1]
               updated == [i \in 1..Len(orig) |-> FreshId(i)]
               h2      == [q \in DOMAIN heap \cup Range(updated) |->
                             IF q \in DOMAIN heap THEN heap[q]
                             ELSE LET v == heap[orig[q - Cardinality(DOMAIN heap)]]
                                  IN  [position |-> v.position,
                                       color |-> recolor(hex[1], v.color)]]
           IN  [Cur EXCEPT !.heap = h2,
                           !.previewVoxels = Some(updated),
                           !.lastOp = OpShown("recolored", hex)]

OpMode(name, branch, mode) == [Op(name, branch, NoPos) EXCEPT !.mode = mode]

\* an applyPreview that appends only the staged voxels at free positions
applyPreviewSkipsOccupied(mode) ==
  IF previewVoxels = None
    THEN [Cur EXCEPT !.lastOp = OpMode("applyPreview", "noPreview", mode)]
    ELSE LET Free(o) == ~exists(heap[o].position)
             newVoxels == IF mode = "replace" THEN previewVoxels[1]
                          ELSE voxels \o SelectSeq(previewVoxels[1], Free)
         IN  [StoreAndRecord(heap, newVoxels)
                EXCEPT !.previewVoxels = None,
                       !.lastOp = OpMode("applyPreview", "committed", mode)]

applyPreview(mode) ==
  IF previewVoxels = None
    THEN [Cur EXCEPT !.lastOp = OpMode("applyPreview", "noPreview", mode)]
    ELSE LET newVoxels == IF mode = "replace" THEN previewVoxels[1]
                          ELSE voxels \o previewVoxels[1]
         IN  [StoreAndRecord(heap, newVoxels)
                EXCEPT !.previewVoxels = None,
                       !.lastOp = OpMode("applyPreview", "committed", mode)]

\* the discard button: setPreviewVoxels(null)
discardPreview ==
  [Cur EXCEPT !.previewVoxels = None,
              !.lastOp = Op("discardPreview", "discarded", NoPos)]

(***************************************************************************)
(* Project management.                                                     *)
(***************************************************************************)
ProjectIds == {projects[i].id : i \in 1..Len(projects)}

\* crypto.randomUUID(): an id no record and no session holds
randomUUID ==
  LET used == ProjectIds \cup (IF currentProjectId = None THEN {} ELSE {currentProjectId[1]})
      free == (1..(Cardinality(used) + 1)) \ used
  IN  CHOOSE u \in free : \A w \in free : u <= w

\* a handleSave that adds a record whether or not the project has an id
handleSaveAlwaysPrepends ==
  LET newId      == IF currentProjectId # None THEN currentProjectId[1] ELSE randomUUID
      newProject == [id |-> newId, voxels |-> voxels, currentColor |-> currentColor]
      updatedProjects == <<newProject>> \o projects
  IN  [Cur EXCEPT !.projects = updatedProjects,
                  !.currentProjectId = Some(newId),
                  !.lastOp = Op("handleSave",
                                IF currentProjectId # None THEN "overwritten" ELSE "created",
                                NoPos)]

handleSave ==
  LET newId      == IF currentProjectId # None THEN currentProjectId[1] ELSE randomUUID
      newProject == [id |-> newId, voxels |-> voxels, currentColor |-> currentColor]
      updatedProjects ==
        IF currentProjectId # None
          THEN [i \in 1..Len(projects) |->
                  IF projects[i].id = currentProjectId[1] THEN newProject ELSE projects[i]]
          ELSE <<newProject>> \o projects
  IN  [Cur EXCEPT !.projects = updatedProjects,
                  !.currentProjectId = Some(newId),
                  !.lastOp = Op("handleSave",
                                IF currentProjectId # None THEN "overwritten" ELSE "created",
                                NoPos)]

\* a loadProject that leaves the history and the cursor as they are
loadProjectKeepsHistory(project) ==
  [Cur EXCEPT !.voxels = project.voxels,
              !.currentProjectId = Some(project.id),
              !.currentColor = project.currentColor,
              !.lastOp = Op("loadProject", "loaded", NoPos)]

loadProject(project) ==
  [Cur EXCEPT !.voxels = project.voxels,
              !.currentProjectId = Some(project.id),
              !.currentColor = project.currentColor,
              !.history = <<project.voxels>>,
              !.historyStep = 0,
              !.lastOp = Op("loadProject", "loaded", NoPos)]

deleteProject(id, confirmed) ==
  IF confirmed
    THEN [Cur EXCEPT !.projects = SelectSeq(projects, LAMBDA p : p.id # id),
                     !.currentProjectId =
                        IF currentProjectId = Some(id) THEN None ELSE currentProjectId,
                     !.lastOp = Op("deleteProject", "deleted", NoPos)]
    ELSE Skip("deleteProject", "cancelled")

startNewProject ==
  [Cur EXCEPT !.voxels = <<>>,
              !.currentProjectId = None,
              !.history = <<>>,
              !.historyStep = -1,
              !.lastOp = Op("startNewProject", "reset", NoPos)]

(***************************************************************************)
(* The session.                                                            *)
(***************************************************************************)
Init ==
  /\ heap = <<>>
  /\ voxels = <<>>
  /\ history = <<>>
  /\ historyStep = -1
  /\ currentTool = "PENCIL"
  /\ currentColor \in Colors
  /\ previewVoxels = None
  /\ originalPreviewRef = None
  /\ isGenerating = FALSE
  /\ pending = FALSE
  /\ projects = <<>>
  /\ currentProjectId = None
  /\ hoveredCoord = None
  /\ placementPos = None
  /\ lastOp = [op |-> "init", branch |-> "done", pos |-> NoPos,
               index |-> 0, normal |-> <<>>, color |-> <<>>, mode |-> "",
               shown |-> <<>>, held |-> 0, redoable |-> 0, edited |-> FALSE]
  /\ prior = <<>>

\* the states the model follows: a step that leaves them is not taken
Within ==
  /\ Len(history) <= MaxHist
  /\ Len(voxels) <= MaxVoxels
  /\ Len(projects) <= MaxProjects
  /\ \A o \in DOMAIN heap : heap[o].position \in Cells
  /\ placementPos # None => placementPos[1] \in Cells

\* the ground plane lies at y = -0.5
GroundY2 == -1

Undo == Becomes(undo)
Redo == Becomes(redo)

VoxelClickIn(normals) ==
  \E index \in 1..Len(voxels), normal \in normals, dist \in ClickDists :
    Becomes(handleVoxelClick(index, normal, dist)) /\ Within'

GridClickIn(xs, zs) ==
  \E x2 \in xs, z2 \in zs, dist \in ClickDists :
    Becomes(handleGridClick(x2, GroundY2, z2, dist)) /\ Within'

VoxelHoverIn(normals) ==
  \E index \in 1..Len(voxels), normal \in normals :
    Becomes(voxelPointerOver(index, normal)) /\ Within'

GridHoverIn(xs, zs) ==
  \E x2 \in xs, z2 \in zs : Becomes(gridPointerMove(x2, GroundY2, z2)) /\ Within'

PointerOut == Becomes(pointerOut)

VoxelClick == VoxelClickIn(Normals \cup {NoNormal})
GridClick == GridClickIn(HalfCoords, HalfCoords)
Clear == \E confirmed \in BOOLEAN : Becomes(handleClear(confirmed)) /\ Within'
SetToolIn(ts) == \E t \in ts : Becomes(setCurrentTool(t))
SetTool == SetToolIn(Tools)
SetColor == \E c \in Colors : Becomes(setCurrentColor(c))

\* the request button is disabled while a request is pending
AiRequest == ~isGenerating /\ \E prompt \in AiPrompts : Becomes(handleAiRequest(prompt))
AiResolveIn(results) ==
  pending /\ \E result \in results : Becomes(aiResolved(result)) /\ Within'
\* the preview panel is rendered while previewVoxels is not null
RecolorPreview ==
  /\ previewVoxels # None
  /\ \E hex \in {None, Some(currentColor)} : Becomes(updatePreviewColor(hex))
ApplyPreview ==
  /\ previewVoxels # None
  /\ \E mode \in {"replace", "append"} : Becomes(applyPreview(mode)) /\ Within'
DiscardPreview == previewVoxels # None /\ Becomes(discardPreview)

Save == Becomes(handleSave) /\ Within'
Load == \E i \in 1..Len(projects) : Becomes(loadProject(projects[i])) /\ Within'
Delete ==
  \E i \in 1..Len(projects), confirmed \in BOOLEAN :
    Becomes(deleteProject(projects[i].id, confirmed))
StartNewProject == Becomes(startNewProject)

\* the editing session: tools, clicks, undo and redo
Next == Undo \/ Redo \/ VoxelClick \/ GridClick \/ Clear \/ SetTool \/ SetColor

Spec == Init /\ [][Next]_vars

\* editing one cell with the AI preview and the hover events
OriginXs == {0}
OriginZs == {0}
AiTools == {"PENCIL", "ERASER", "PAINT", "PICKER"}
AiAnswers == {None, Some(<<Point(0, 0, 0, Green)>>)}
NextAi ==
  \/ Undo \/ Redo
  \/ VoxelClickIn({NoNormal}) \/ GridClickIn(OriginXs, OriginZs)
  \/ Clear \/ SetToolIn(AiTools)
  \/ GridHoverIn(OriginXs, OriginZs) \/ PointerOut
  \/ AiRequest \/ AiResolveIn(AiAnswers) \/ RecolorPreview \/ ApplyPreview \/ DiscardPreview

SpecAi == Init /\ [][NextAi]_vars

\* editing one cell with the project library
ProjTools == {"PENCIL", "ERASER", "PAINT"}
NextProj ==
  \/ Undo \/ Redo
  \/ VoxelClickIn({NoNormal}) \/ GridClickIn(OriginXs, OriginZs)
  \/ Clear \/ SetToolIn(ProjTools) \/ SetColor
  \/ Save \/ Load \/ Delete \/ StartNewProject

SpecProj == Init /\ [][NextProj]_vars

\* adding and erasing one voxel until the history is full and beyond
CapTools == {"PENCIL", "ERASER"}
CapGridClick ==
  \E x2 \in OriginXs, z2 \in OriginZs, dist \in ClickDists :
    Becomes(handleGridClick(x2, GroundY2, z2, dist))
CapVoxelClick ==
  \E index \in 1..Len(voxels), dist \in ClickDists :
    Becomes(handleVoxelClick(index, NoNormal, dist))
NextCap == Undo \/ Redo \/ CapGridClick \/ CapVoxelClick \/ SetToolIn(CapTools)

SpecCap == Init /\ [][NextCap]_vars

\* staging, recoloring and committing previews next to one cell;
\* updatePreviewColor and applyPreview are called in every state
StagedAnswers ==
  { None,
    Some(<<Point(0, 0, 0, Moss)>>),
    Some(<<Point(0, 0, 0, Moss), Point(1, 0, 0, Green)>>) }
CommitCall ==
  \E mode \in {"replace", "append"} : Becomes(applyPreview(mode)) /\ Within'
PreviewColorCall ==
  \E hex \in {None, Some(currentColor)} : Becomes(updatePreviewColor(hex))
NextStaged ==
  \/ GridClickIn(OriginXs, OriginZs) \/ SetColor
  \/ AiRequest \/ AiResolveIn(StagedAnswers) \/ PreviewColorCall \/ CommitCall
  \/ DiscardPreview

SpecStaged == Init /\ [][NextStaged]_vars

\* adding, committing and erasing at one cell, one snapshot deeper than the
\* other sessions
WithinDeep ==
  /\ Len(history) <= MaxHist + 1
  /\ Len(voxels) <= MaxVoxels
DeepGridClick ==
  \E x2 \in OriginXs, z2 \in OriginZs, dist \in ClickDists :
    Becomes(handleGridClick(x2, GroundY2, z2, dist)) /\ WithinDeep'
DeepVoxelClick ==
  \E index \in 1..Len(voxels), dist \in ClickDists :
    Becomes(handleVoxelClick(index, NoNormal, dist)) /\ WithinDeep'
DeepApplyPreview ==
  /\ previewVoxels # None
  /\ \E mode \in {"replace", "append"} : Becomes(applyPreview(mode)) /\ WithinDeep'
NextDeep ==
  \/ DeepGridClick \/ DeepVoxelClick \/ SetToolIn(CapTools)
  \/ AiRequest \/ AiResolveIn(AiAnswers) \/ DeepApplyPreview

SpecDeep == Init /\ [][NextDeep]_vars

\* removeVoxel and updateVoxelColor called with any index, one before the
\* first voxel and one after the last included
RemoveCall ==
  \E index \in 0..(Len(voxels) + 1) : Becomes(removeVoxel(index, "removeVoxel")) /\ Within'
RecolorCall ==
  \E index \in 0..(Len(voxels) + 1) : Becomes(updateVoxelColor(index, "updateVoxelColor")) /\ Within'
NextApi == Undo \/ Redo \/ GridClick \/ SetColor \/ RemoveCall \/ RecolorCall

SpecApi == Init /\ [][NextApi]_vars

\* editing one cell while a generation request is pending; the generator
\* answers with points, with no point, with null, or fails
GenAnswers == {None, Some(<<>>), Some(<<Point(0, 0, 0, Green)>>)}
AiReject == pending /\ Becomes(aiRejected)
NextGen ==
  \/ Undo \/ Redo
  \/ VoxelClickIn({NoNormal}) \/ GridClickIn(OriginXs, OriginZs)
  \/ SetToolIn(ProjTools)
  \/ AiRequest \/ AiResolveIn(GenAnswers) \/ AiReject
  \/ ApplyPreview \/ DiscardPreview

SpecGen == Init /\ [][NextGen]_vars

\* editing one cell with a library of one project more than the other
\* sessions keep
LibTools == {"PENCIL", "ERASER", "PAINT"}
WithinLib ==
  /\ Len(history) <= MaxHist
  /\ Len(voxels) <= MaxVoxels
  /\ Len(projects) <= MaxProjects + 1
LibSave == Becomes(handleSave) /\ WithinLib'
LibLoad == \E i \in 1..Len(projects) : Becomes(loadProject(projects[i]))
NextLib ==
  \/ Undo \/ Redo
  \/ VoxelClickIn({NoNormal}) \/ GridClickIn(OriginXs, OriginZs)
  \/ SetToolIn(LibTools) \/ SetColor
  \/ LibSave \/ LibLoad \/ Delete \/ StartNewProject

SpecLib == Init /\ [][NextLib]_vars

\* editing one cell with the project library and the AI preview
NextAll ==
  \/ Undo \/ Redo
  \/ VoxelClickIn({NoNormal}) \/ GridClickIn(OriginXs, OriginZs)
  \/ Clear \/ SetToolIn(ProjTools)
  \/ Save \/ Load \/ StartNewProject
  \/ AiRequest \/ AiResolveIn(AiAnswers) \/ ApplyPreview

SpecAll == Init /\ [][NextAll]_vars

\* placing and duplicating voxels while the pointer hovers their faces
GhostTools == {"PENCIL", "DUPLICATE"}
NextGhost ==
  \/ VoxelClickIn(Normals) \/ GridClick
  \/ SetToolIn(GhostTools) \/ SetColor
  \/ VoxelHoverIn(Normals \cup {NoNormal}) \/ PointerOut

SpecGhost == Init /\ [][NextGhost]_vars

(***************************************************************************)
(* Properties.                                                             *)
(***************************************************************************)
\* the branches that end in recordHistory
Recorded(o) == o.branch \in {"added", "removed", "painted", "cleared", "committed"}

Session == <<heap, voxels, history, historyStep>>

\* what the records ps hold in heap h: ids, positions and colors
ProjectContent(h, ps) ==
  [i \in 1..Len(ps) |-> [ps[i] EXCEPT !.voxels = ContentIn(h, ps[i].voxels)]]

NoDuplicatePositions(vs) ==
  \A i, j \in 1..Len(vs) :
    i # j => ~SamePos(heap[vs[i]].position, heap[vs[j]].position)

\* C1: an undo right after a handler that recorded a snapshot leaves the
\* store with exactly the content (positions and colors, in order) it had
\* before that handler ran.
C1_UndoRestoresPrior ==
  [][(Recorded(lastOp) /\ lastOp'.op = "undo")
       => ContentIn(heap', voxels') = prior]_vars

\* C2: a snapshot is immutable: while it stays in the history (a recording
\* keeps the snapshots up to the cursor, every other step keeps them all),
\* its voxels have the same positions and colors after a step as before.
C2_SnapshotImmutable ==
  [][\A i \in 1..Len(history) :
       (IF Recorded(lastOp') THEN i <= historyStep + 1 ELSE i <= Len(history'))
         => ContentIn(heap', history'[i]) = Content(history[i])]_vars

\* C3: every recording handler keeps the snapshots up to the cursor, drops
\* the ones after it, appends its snapshot and leaves the cursor on the last
\* index, so a redo that follows it changes neither the store nor the history
\* nor the cursor.
C3_RecordDiscardsRedo ==
  [][/\ Recorded(lastOp') =>
          /\ historyStep' = Len(history') - 1
          /\ Len(history') = historyStep + 2
          /\ SubSeq(history', 1, historyStep + 1) = SubSeq(history, 1, historyStep + 1)
     /\ (Recorded(lastOp) /\ lastOp'.op = "redo") => UNCHANGED Session]_vars

\* a snapshot was recorded while a redoable snapshot existed
C3_Witness ==
  /\ Recorded(lastOp) /\ lastOp.redoable > 0
  /\ lastOp.held = 2 /\ Len(history) = 2
  /\ historyStep = Len(history) - 1

\* C4: the history never holds more than 20 snapshots and the cursor never
\* lies more than 19 steps from the oldest one; a recording that finds 20
\* snapshots and the cursor on the last one leaves 20: the former 2nd to
\* 20th in their order, then the new store, with the cursor on it.
C4_CapEvictsOldest ==
  [][/\ Len(history') <= HistoryCap
     /\ historyStep' < HistoryCap
     /\ (Recorded(lastOp') /\ Len(history) = HistoryCap /\ historyStep = HistoryCap - 1) =>
          /\ Len(history') = HistoryCap
          /\ historyStep' = HistoryCap - 1
          /\ \A i \in 1..(HistoryCap - 1) :
               ContentIn(heap', history'[i]) = Content(history[i + 1])
          /\ history'[HistoryCap] = voxels']_vars

\* a recording found a full history with nothing to redo
C4_Witness ==
  /\ Recorded(lastOp)
  /\ lastOp.held = HistoryCap /\ lastOp.redoable = 0
  /\ Len(history) = HistoryCap /\ historyStep = HistoryCap - 1

\* C5: either the history is empty and the cursor is -1, or the cursor is
\* an index of the history.
C5_CursorValid ==
  \/ history = <<>> /\ historyStep = -1
  \/ 0 <= historyStep /\ historyStep < Len(history)

\* a project was loaded over a history of two snapshots with the cursor
\* on the older one
C5_Witness ==
  /\ lastOp.op = "loadProject"
  /\ lastOp.held = 2 /\ lastOp.redoable = 1
  /\ Len(history) = 1 /\ historyStep = 0

\* C6: undo with the cursor at or below 0 and redo with the cursor on the
\* last index change neither the store nor the history nor the cursor.
C6_BoundaryNoOp ==
  [][/\ (lastOp'.op = "undo" /\ historyStep <= 0) => UNCHANGED Session
     /\ (lastOp'.op = "redo" /\ historyStep = Len(history) - 1) => UNCHANGED Session]_vars

\* an undo was asked for on the oldest of two snapshots
C6_Witness ==
  /\ lastOp.op = "undo" /\ lastOp.branch = "skipped"
  /\ historyStep = 0 /\ Len(history) = 2

\* C7: an add that inserts, a remove, a PAINT recolor and a commit each keep
\* the snapshots up to the cursor and append one snapshot, the store they
\* leave, with the cursor on it; a hover event, PICKER, staging, a preview
\* recolor, a discard and an add on an occupied cell change neither the
\* history nor the cursor.
C7_SnapshotPerMutation ==
  [][/\ lastOp'.branch \in {"added", "removed", "painted", "committed"} =>
          /\ Len(history') = historyStep + 2
          /\ SubSeq(history', 1, historyStep + 1) = SubSeq(history, 1, historyStep + 1)
          /\ history'[Len(history')] = voxels'
          /\ historyStep' = Len(history') - 1
     /\ (\/ lastOp'.op = "hover"
         \/ lastOp'.branch \in
              {"picked", "staged", "recolored", "reset", "discarded", "occupied"})
          => UNCHANGED <<history, historyStep>>]_vars

\* a commit in append mode added a second snapshot, the store of two voxels
C7_Witness ==
  /\ lastOp.op = "applyPreview" /\ lastOp.branch = "committed"
  /\ lastOp.held = 1
  /\ Len(history) = 2 /\ historyStep = 1
  /\ history[2] = voxels /\ Len(voxels) = 2

\* C8: after every add, remove and recolor of a session that started with
\* an empty store, no two voxels of the store have the same position.
C8_NoDuplicateAfterEdits == NoDuplicatePositions(voxels)

\* an add on an occupied cell was turned down in a store of two voxels
C8_Witness ==
  /\ Len(voxels) = 2
  /\ lastOp.branch = "occupied"

\* C9: in every state of a session, commits included, the voxels of the
\* store lie at pairwise different positions.
C9_NoDuplicateEver ==
  \A i, j \in 1..Len(voxels) :
    heap[voxels[i]].position = heap[voxels[j]].position => i = j

\* C10: an add whose cell is occupied changes neither the store (order,
\* positions, colors) nor the history nor the cursor, whatever its color.
C10_OccupiedAddNoOp ==
  [][(/\ lastOp'.op \in {"gridClick", "voxelClick"}
      /\ lastOp'.pos # NoPos
      /\ exists(lastOp'.pos))
       => UNCHANGED Session]_vars

\* a DUPLICATE click asked for an occupied cell with a color that differs
\* from the color of the voxel in it
C10_Witness ==
  /\ lastOp.op = "voxelClick" /\ lastOp.branch = "occupied"
  /\ currentTool = "DUPLICATE"
  /\ \E i, j \in 1..Len(voxels) :
       /\ SamePos(heap[voxels[i]].position, lastOp.pos)
       /\ heap[voxels[j]].color # heap[voxels[i]].color

\* the handler was asked to add a voxel at a cell
AddAsked(o) == o.op \in {"gridClick", "voxelClick"} /\ o.pos # NoPos

\* C11: an add at an unoccupied cell leaves the voxels of the store as they
\* were, in their order, and puts one voxel after them, at the cell asked
\* for and of the color argument, or of the current color if there is none;
\* the history gains one snapshot, the new store.
C11_AddAppends ==
  [][(AddAsked(lastOp') /\ ~exists(lastOp'.pos)) =>
        /\ Len(voxels') = Len(voxels) + 1
        /\ ContentIn(heap', SubSeq(voxels', 1, Len(voxels))) = Content(voxels)
        /\ heap'[voxels'[Len(voxels')]] =
              [position |-> lastOp'.pos,
               color |-> IF lastOp'.color = Undefined THEN currentColor
                         ELSE lastOp'.color]
        /\ Len(history') = historyStep + 2
        /\ history'[Len(history')] = voxels'
        /\ historyStep' = Len(history') - 1]_vars

\* a second voxel was added with a color argument other than the current
\* color
C11_Witness ==
  /\ lastOp.branch = "added" /\ lastOp.held = 1
  /\ lastOp.color # Undefined /\ lastOp.color # currentColor
  /\ Len(voxels) = 2
  /\ heap[voxels[2]].position = lastOp.pos
\* C12: a click on the ground plane changes the store, the history, the
\* cursor, the current color or the active tool only if the active tool is
\* PENCIL.
C12_GridClickNeedsPencil ==
  [][(lastOp'.op = "gridClick" /\ currentTool # "PENCIL")
       => UNCHANGED <<Session, currentColor, currentTool>>]_vars
\* C13: a click on a face of a voxel that adds a voxel adds it at the cell
\* next to the clicked voxel along the face normal; under DUPLICATE the new
\* voxel has the color of the clicked voxel, under PENCIL the current color.
C13_DuplicateUsesSourceColor ==
  [][(lastOp'.op = "voxelClick" /\ lastOp'.branch = "added") =>
        LET sourceVoxel == heap[voxels[lastOp'.index]]
            new         == heap'[voxels'[Len(voxels')]]
        IN  /\ currentTool \in {"PENCIL", "DUPLICATE"}
            /\ lastOp'.normal \in Normals
            /\ new.position = Plus(sourceVoxel.position, lastOp'.normal)
            /\ currentTool = "DUPLICATE" => new.color = sourceVoxel.color
            /\ currentTool = "PENCIL" => new.color = currentColor]_vars

\* a DUPLICATE click added a voxel of the color of the clicked voxel while
\* the current color was another
C13_Witness ==
  /\ lastOp.op = "voxelClick" /\ lastOp.branch = "added"
  /\ currentTool = "DUPLICATE"
  /\ heap[voxels[Len(voxels)]].color = heap[voxels[lastOp.index]].color
  /\ heap[voxels[Len(voxels)]].color # currentColor
\* C14: a click (not a drag) on a voxel under PICKER makes the color of that
\* voxel the current color and PENCIL the active tool, and changes neither
\* the store nor the history nor the cursor.
C14_PickerPicks ==
  [][(lastOp'.op = "voxelClick" /\ lastOp'.branch # "drag" /\ currentTool = "PICKER") =>
        /\ lastOp'.index \in 1..Len(voxels)
        /\ currentColor' = heap[voxels[lastOp'.index]].color
        /\ currentTool' = "PENCIL"
        /\ UNCHANGED Session]_vars

\* the second of two voxels of different colors was picked
C14_Witness ==
  /\ lastOp.op = "voxelClick" /\ lastOp.branch = "picked" /\ lastOp.index = 2
  /\ Len(voxels) = 2
  /\ heap[voxels[1]].color # heap[voxels[2]].color
  /\ currentColor = heap[voxels[2]].color
  /\ currentTool = "PENCIL"
\* C15: a click (not a drag) on voxel i under ERASER leaves one voxel less:
\* the others as they were and in their order, and none at the position of
\* the voxel clicked.
C15_EraserRemoves ==
  [][(lastOp'.op = "voxelClick" /\ lastOp'.branch # "drag" /\ currentTool = "ERASER") =>
        LET i == lastOp'.index
        IN  /\ Len(voxels') = Len(voxels) - 1
            /\ ContentIn(heap', voxels') =
                  Content(SubSeq(voxels, 1, i - 1) \o SubSeq(voxels, i + 1, Len(voxels)))
            /\ \A j \in 1..Len(voxels') :
                  ~SamePos(heap'[voxels'[j]].position, heap[voxels[i]].position)]_vars
\* C16: removeVoxel or updateVoxelColor called with an index outside the
\* store ends in an error and leaves the store, the history and the cursor as
\* they were.
C16_InvalidIndexRejected ==
  [][(lastOp'.op \in {"removeVoxel", "updateVoxelColor"} /\ lastOp'.index \notin 1..Len(voxels)) =>
        /\ lastOp'.branch = "threw"
        /\ UNCHANGED <<heap, voxels, history, historyStep>>]_vars
\* C17: applyPreview with a preview staged sets the store to the preview
\* (replace) or to the store followed by the preview (append), drops the
\* redoable snapshots, records one snapshot of the new store and clears the
\* preview; with no preview staged it changes nothing.
C17_CommitStoresPreview ==
  [][lastOp'.op = "applyPreview" =>
        IF previewVoxels = None
        THEN /\ lastOp'.branch = "noPreview"
             /\ UNCHANGED <<Session, previewVoxels, originalPreviewRef>>
        ELSE /\ lastOp'.branch = "committed"
             /\ ContentIn(heap', voxels') =
                  IF lastOp'.mode = "replace" THEN Content(previewVoxels[1])
                  ELSE Content(voxels) \o Content(previewVoxels[1])
             /\ Len(history') = historyStep + 2
             /\ historyStep' = historyStep + 1
             /\ \A k \in 1..(historyStep + 1) :
                  ContentIn(heap', history'[k]) = Content(history[k])
             /\ ContentIn(heap', history'[Len(history')]) = ContentIn(heap', voxels')
             /\ previewVoxels' = None]_vars
C17_Witness ==
  /\ lastOp.op = "applyPreview" /\ lastOp.branch = "committed" /\ lastOp.mode = "append"
  /\ lastOp.held = 1
  /\ Len(voxels) = 2
  /\ Len(history) = 2
  /\ previewVoxels = None
\* C18: once the preview is discarded or committed nothing of it is kept:
\* updatePreviewColor called while no preview is staged stages none.
C18_NoPreviewReappears ==
  [][(lastOp'.op = "updatePreviewColor" /\ previewVoxels = None) =>
        previewVoxels' = None]_vars
\* C19: updatePreviewColor(null) on a staged preview, whatever was shown
\* before, shows the voxels the generator gave: as many, in their order, at
\* their positions and in their colours.
C19_ResetShowsOriginal ==
  [][(lastOp'.op = "updatePreviewColor" /\ lastOp'.color = None /\ previewVoxels # None) =>
        /\ lastOp'.branch = "reset"
        /\ previewVoxels' # None
        /\ ContentIn(heap', previewVoxels'[1]) = Content(originalPreviewRef[1])
        /\ Some(ContentIn(heap', previewVoxels'[1])) \in StagedAnswers]_vars
C19_Witness ==
  /\ lastOp.op = "updatePreviewColor" /\ lastOp.branch = "reset"
  /\ Len(lastOp.shown) = 2
  /\ lastOp.shown # Content(originalPreviewRef[1])
  /\ Content(previewVoxels[1]) = Content(originalPreviewRef[1])
\* C20: updatePreviewColor on a staged preview leaves the original voxels as
\* they are, and with a target colour it shows the original voxels, each at
\* its position and recolored from its original colour, whatever was shown
\* before.
C20_RecolorFromOriginal ==
  [][(lastOp'.op = "updatePreviewColor" /\ previewVoxels # None) =>
        /\ originalPreviewRef # None /\ originalPreviewRef' # None
        /\ ContentIn(heap', originalPreviewRef'[1]) = Content(originalPreviewRef[1])
        /\ lastOp'.color # None =>
             /\ lastOp'.branch = "recolored"
             /\ previewVoxels' # None
             /\ ContentIn(heap', previewVoxels'[1]) =
                  [i \in 1..Len(originalPreviewRef[1]) |->
                     [position |-> heap[originalPreviewRef[1][i]].position,
                      color |-> recolor(lastOp'.color[1], heap[originalPreviewRef[1][i]].color)]]]_vars
C20_Witness ==
  /\ lastOp.op = "updatePreviewColor" /\ lastOp.branch = "recolored"
  /\ Len(lastOp.shown) = 2
  /\ lastOp.shown[1].color \notin {Moss, recolor(lastOp.color[1], Moss)}
  /\ heap[originalPreviewRef[1][1]].color = Moss
  /\ heap[previewVoxels[1][1]].color = recolor(lastOp.color[1], Moss)
  /\ heap[previewVoxels[1][2]].position = heap[originalPreviewRef[1][2]].position
\* C21: when the generator fails or answers with null or with no point, no
\* preview is staged afterwards and the store, the history and the cursor are
\* as before.
C21_EmptyAnswerStagesNothing ==
  [][(lastOp'.op = "aiRejected" \/ (lastOp'.op = "aiResolved" /\ lastOp'.shown = <<>>)) =>
        /\ previewVoxels' = None
        /\ UNCHANGED Session]_vars
\* C22: a click (not a drag) under PENCIL or DUPLICATE on a voxel, the event
\* having no face, places nothing: the store, the history and the cursor are
\* as before.
C22_NoFaceNoPlacement ==
  [][(lastOp'.op = "voxelClick" /\ lastOp'.branch # "drag"
        /\ currentTool \in {"PENCIL", "DUPLICATE"} /\ lastOp'.normal = NoNormal) =>
        /\ lastOp'.branch = "noNormal"
        /\ UNCHANGED Session]_vars
C22_Witness ==
  /\ lastOp.op = "voxelClick" /\ lastOp.branch = "noNormal"
  /\ currentTool = "DUPLICATE"
  /\ Len(voxels) = 1
  /\ lastOp.held = 1
\* C23: the ids of the records are pairwise distinct; handleSave of a project
\* without id adds one record under an id no record has and makes it the
\* current id; handleSave of a project with an id replaces the record of that
\* id where it stands, the ids, the number and the other records as before;
\* after either, the record of the current id holds the store.
C23_SaveKeepsIdentity ==
  [][/\ \A i, j \in 1..Len(projects') : i # j => projects'[i].id # projects'[j].id
     /\ lastOp'.op = "handleSave" =>
          LET was == ProjectContent(heap, projects)
              now == ProjectContent(heap', projects')
          IN  /\ currentProjectId' # None
              /\ IF currentProjectId = None
                  THEN /\ Len(now) = Len(was) + 1
                       /\ currentProjectId'[1] \notin ProjectIds
                       /\ now[1].id = currentProjectId'[1]
                       /\ Tail(now) = was
                  ELSE /\ currentProjectId' = currentProjectId
                       /\ Len(now) = Len(was)
                       /\ \A i \in 1..Len(was) :
                            /\ now[i].id = was[i].id
                            /\ was[i].id # currentProjectId[1] => now[i] = was[i]
              /\ \E i \in 1..Len(now) :
                   /\ now[i].id = currentProjectId'[1]
                   /\ now[i].voxels = ContentIn(heap', voxels')]_vars
C23_Witness ==
  /\ lastOp.op = "handleSave" /\ lastOp.branch = "overwritten"
  /\ Len(projects) = 2
  /\ projects[2].id = currentProjectId[1]
  /\ Content(projects[2].voxels) = Content(voxels)
  /\ Content(projects[1].voxels) # Content(voxels)
\* C24: when the generator answers, whatever the handlers did while the
\* request was pending, the store, the history and the cursor are as they
\* were before the answer; an answer of points sets the preview and its
\* original to those points, one voxel each, and ends the generating.
C24_StagingLeavesStore ==
  [][lastOp'.op = "aiResolved" =>
        /\ ContentIn(heap', voxels') = Content(voxels)
        /\ Len(history') = Len(history)
        /\ \A k \in 1..Len(history) : ContentIn(heap', history'[k]) = Content(history[k])
        /\ historyStep' = historyStep
        /\ ~isGenerating'
        /\ lastOp'.branch = "staged" =>
             /\ previewVoxels' # None /\ originalPreviewRef' # None
             /\ ContentIn(heap', previewVoxels'[1]) = lastOp'.shown
             /\ ContentIn(heap', originalPreviewRef'[1]) = lastOp'.shown]_vars
C24_Witness ==
  /\ lastOp.op = "aiResolved" /\ lastOp.branch = "staged"
  /\ lastOp.edited
  /\ Len(voxels) = 1 /\ Len(history) = 1 /\ historyStep = 0
  /\ previewVoxels # None /\ Len(previewVoxels[1]) = 1
\* C25: once the generator has settled, with points, with no point, with
\* null or with a failure, the editor is no longer generating, so that the
\* next request can be sent.
C25_GeneratingEnds ==
  [][lastOp'.op \in {"aiResolved", "aiRejected"} => ~isGenerating']_vars
\* C26: whenever the history holds a snapshot, the cursor is on one of its
\* snapshots and that snapshot has the positions and colors of the store, in
\* the order of the store.
C26_CursorSnapshotIsStore ==
  Len(history) > 0 =>
    /\ historyStep \in 0..(Len(history) - 1)
    /\ Content(history[historyStep + 1]) = Content(voxels)
C26_Witness ==
  /\ lastOp.op = "undo" /\ lastOp.branch = "moved"
  /\ Len(history) = 2 /\ historyStep = 0
  /\ Len(voxels) = 1
  /\ Content(history[1]) = Content(voxels)
  /\ Content(history[2]) # Content(voxels)
\* C27: the first handler that records into an empty history leaves one
\* snapshot, that of the store it has set, with the cursor on it: the store
\* as it was before is in no snapshot; and undo with the cursor on the first
\* snapshot changes nothing, so that no undo brings that store back.
C27_InitialStoreNotRecorded ==
  [][/\ (Recorded(lastOp') /\ lastOp'.held = 0) =>
          /\ Len(history') = 1
          /\ historyStep' = 0
          /\ ContentIn(heap', history'[1]) = ContentIn(heap', voxels')
     /\ (lastOp'.op = "undo" /\ historyStep <= 0) =>
          /\ lastOp'.branch = "skipped"
          /\ UNCHANGED Session]_vars
C27_Witness ==
  /\ lastOp.op = "undo" /\ lastOp.branch = "skipped"
  /\ lastOp.held = 1
  /\ historyStep = 0
  /\ Len(voxels) = 1
  /\ currentProjectId = None /\ Len(projects) = 1
\* C28: loadProject sets the store to the voxels of the record loaded and the
\* history to the one snapshot of those voxels, the cursor on it, so that
\* neither undo nor redo can move; and an undo or redo that moves sets the
\* store to a snapshot the history held.
C28_LoadResetsHistory ==
  [][/\ lastOp'.op = "loadProject" =>
          /\ currentProjectId' # None
          /\ \E i \in 1..Len(projects) :
               /\ projects[i].id = currentProjectId'[1]
               /\ ContentIn(heap', voxels') = Content(projects[i].voxels)
          /\ Len(history') = 1
          /\ historyStep' = 0
          /\ ContentIn(heap', history'[1]) = ContentIn(heap', voxels')
     /\ (lastOp'.op \in {"undo", "redo"} /\ lastOp'.branch = "moved") =>
          \E k \in 1..Len(history) : ContentIn(heap', voxels') = Content(history[k])]_vars
C28_Witness ==
  /\ lastOp.op = "loadProject"
  /\ lastOp.held = 2 /\ lastOp.redoable = 1
  /\ Len(projects) = 2
  /\ Len(history) = 1 /\ historyStep = 0
  /\ Len(voxels) = 1
  /\ Content(history[1]) = Content(voxels)
\* C29: the positions and colors a record of the project list holds change
\* only when that project is saved: every handler but handleSave and
\* deleteProject leaves the records as they are, handleSave changes at most
\* the record of the current id, and deleteProject leaves the records it
\* keeps as they are.
C29_RecordsChangeOnlyOnSave ==
  [][LET was == ProjectContent(heap, projects)
         now == ProjectContent(heap', projects')
     IN  CASE lastOp'.op = "handleSave" ->
                \A i \in 1..Len(was) :
                  was[i].id # currentProjectId'[1] => \E j \in 1..Len(now) : now[j] = was[i]
           [] lastOp'.op = "deleteProject" ->
                \A j \in 1..Len(now) : \E i \in 1..Len(was) : now[j] = was[i]
           [] OTHER -> now = was]_vars
\* C30: under DUPLICATE, while the pointer is on a face of a voxel of the
\* store, the ghost has the color that a click on that face gives the voxel
\* it adds.
C30_GhostShowsDuplicateColor ==
  \A index \in 1..Len(voxels), normal \in Normals :
    (/\ currentTool = "DUPLICATE"
     /\ hoveredCoord = Some(heap[voxels[index]].position)
     /\ placementPos = Some(Plus(heap[voxels[index]].position, normal))) =>
      \A after \in {handleVoxelClick(index, normal, CLICK_THRESHOLD - 1)} :
        after.lastOp.branch = "added" =>
          after.heap[after.voxels[Len(after.voxels)]].color = ghostColor
====
